---- MODULE Spec2Model ----
(***************************************************************************)
(* Verification model of the market-making toolkit:                        *)
(*   - backtester.py      Backtester (ingest / run)                        *)
(*   - simulator.py       run_portfolio_monte_carlo                        *)
(*   - data_processor.py  clean_sold_prices / process_sku_sold             *)
(*                                                                         *)
(* Numbers.  Floats are modelled exactly as scaled integers.  Money is     *)
(* held in units of 1/MoneyScale of a currency unit; trade prices are      *)
(* multiples of 100, which makes every product with a basis-point rate,    *)
(* the 0.001 * stale/30 penalty rate and the average-cost halvings exact.  *)
(* np.nan is the value NaN; it propagates through arithmetic and makes     *)
(* every comparison false, as IEEE-754 does.                               *)
(***************************************************************************)
EXTENDS Integers, Sequences, FiniteSets, TLC

VARIABLES
    \* ---- Backtester instance and the locals of Backtester.run ----
    config,                     \* self.config (BacktestConfig)
    ts,                         \* self._ts: [is_none, rows]
    pc,                         \* "new" | "ready" | "running" | "done" | "error"
    i,                          \* loop index of run (1-based)
    cash,
    position,
    cost_basis,
    equity_curve,
    hold_curve,
    trade_pnls,
    fill_log,                   \* side of every executed fill, in order
    peak_equity,
    max_dd,                     \* a fraction <<num, den>>
    inventory_days_stale,
    total_inventory_risk_cost,
    metrics,                    \* the BacktestMetrics returned by run
    self_fields,                \* self._fills, _positions, _cash, _equity_curve
    ts_df_kept,                 \* every frame passed to ingest still is as passed
    calls,                      \* the calls made so far and what they returned
    \* ---- run_portfolio_monte_carlo ----
    mc_config,                  \* the caller's PortfolioSimulatorConfig
    mc_results,                 \* <<[config, rng, result], ...>>, one per call
    \* ---- MarketSimulator (simulator.py, legacy single-SKU loop) ----
    sim_config,                 \* self.config (SimulatorConfig)
    sim_run,                    \* MarketSimulator.run: its position and arrays
    \* ---- calibration (data_processor.py) ----
    sold_df,                    \* one SKU's Sold frame: [has_price, rows]
    cleaned,                    \* price arrays after 1, 2, ... cleanings
    params,                     \* what each call of process_sku_sold returned
    \* ---- DataProcessor.ingest_dataframes / ingest_files ----
    batch,                      \* the call: [via, entries], one entry per SKU
    batch_pc,                   \* "new" | "loop" | "done" | "error"
    batch_i,                    \* position of the loop over the SKUs
    self_sku_params             \* self._sku_params: SKU -> parameters

runVars == <<i, cash, position, cost_basis, equity_curve, hold_curve,
             trade_pnls, fill_log, peak_equity, max_dd, inventory_days_stale,
             total_inventory_risk_cost>>

btVars == <<config, ts, pc, runVars, metrics, self_fields, ts_df_kept, calls>>

legacyVars == <<sim_config, sim_run>>

mcVars == <<mc_config, mc_results, legacyVars>>

calVars == <<sold_df, cleaned, params>>

batchVars == <<batch, batch_pc, batch_i, self_sku_params>>

vars == <<btVars, mcVars, calVars, batchVars>>

-----------------------------------------------------------------------------
(* Bounds of the model *)
MaxPeriods == 2
MaxPaths == 2
MaxDays == 2
MaxRuns == 2
MaxSales == 4
MaxCleanings == 2
MaxAssets == 2
MaxCalls == 3

-----------------------------------------------------------------------------
(* Float arithmetic with NaN *)
NaN == -999999999

IsNaN(x) == x = NaN

Add(a, b) == IF IsNaN(a) \/ IsNaN(b) THEN NaN ELSE a + b
Sub(a, b) == IF IsNaN(a) \/ IsNaN(b) THEN NaN ELSE a - b
Mul(a, b) == IF IsNaN(a) \/ IsNaN(b) THEN NaN ELSE a * b
GE(a, b) == ~IsNaN(a) /\ ~IsNaN(b) /\ a >= b
GT(a, b) == ~IsNaN(a) /\ ~IsNaN(b) /\ a > b
LE(a, b) == ~IsNaN(a) /\ ~IsNaN(b) /\ a <= b

Min(a, b) == IF a <= b THEN a ELSE b
Max(a, b) == IF a >= b THEN a ELSE b
Abs(a) == IF a < 0 THEN 0 - a ELSE a

RECURSIVE Gcd(_, _)
Gcd(a, b) == IF b = 0 THEN a ELSE Gcd(b, a % b)

\* a/b > c/d for a, c >= 0 and b, d > 0, by continued-fraction comparison
\* (no cross product, so no overflow).
RECURSIVE RatGT(_, _, _, _)
RatGT(a, b, c, d) ==
    LET qa == a \div b
        qc == c \div d
        ra == a % b
        rc == c % d
    IN  IF qa # qc THEN qa > qc
        ELSE IF ra = 0 THEN FALSE
        ELSE IF rc = 0 THEN TRUE
        ELSE RatGT(d, rc, b, ra)

\* Fixed-point unit of money: 1 currency unit = MoneyScale model units.
MoneyScale == 16 * 300
Money(x) == IF IsNaN(x) THEN NaN ELSE x * MoneyScale

BpsDenom == 10000
StaleCapDays == 30
PenaltyDenom == 1000

-----------------------------------------------------------------------------
(* BacktestConfig and BacktestMetrics *)

\* BacktestConfig(); fill_proximity_pct is held in units of 1 / BpsDenom
\* (0.02 = 200).
DefaultConfig ==
    [initial_cash |-> 100000, spread_bps |-> 200, position_limit |-> 10,
     fee_bps |-> 125, friction_bps |-> 50, fill_proximity_pct |-> 200,
     volume_scale |-> 1]

\* BacktestMetrics(): every field at its default.
BacktestMetrics ==
    [total_pnl |-> 0,
     sharpe_ratio |-> [nan |-> FALSE, std_positive |-> FALSE],
     max_drawdown_pct |-> <<0, 1>>,
     inventory_risk_cost |-> 0,
     num_trades |-> 0,
     win_rate_pct |-> <<0, 1>>,
     equity_curve |-> <<>>,
     hold_curve |-> <<>>]

-----------------------------------------------------------------------------
(* Backtester.ingest *)

\* DataFrame.sort_values("date"): the rows in ascending date order (rows of
\* equal date keep their order).  Rank(k) is the place of row k in the result.
SortByDate(rows) ==
    LET n == Len(rows)
        Rank(k) ==
            1 + Cardinality({j \in 1..n :
                    \/ rows[j].date < rows[k].date
                    \/ (rows[j].date = rows[k].date /\ j < k)})
    IN  [r \in 1..n |-> rows[CHOOSE k \in 1..n : Rank(k) = r]]

\* Lines 60-61: a frame without a best_ask column gets fill_price as best_ask.
FillBestAsk(df) ==
    IF df.has_best_ask THEN df.rows
    ELSE [k \in 1..Len(df.rows) |->
            [df.rows[k] EXCEPT !.best_ask = df.rows[k].fill_price]]

\* The instance fields __init__ and ingest reset (run never reads them).
FreshFields(cfg) ==
    [_fills |-> <<>>, _positions |-> <<>>,
     _cash |-> Money(cfg.initial_cash), _equity_curve |-> <<>>]

\* the caller's frame after an ingest that works on the frame itself
CallerFrameWorkedOn(df) ==
    [has_best_ask |-> TRUE, rows |-> FillBestAsk(df)]

\* the caller's frame after ingest: line 58 rebinds ts_df to a copy, so the
\* column added in line 61 and the converted dates never reach it
CallerFrame(df) ==
    [has_best_ask |-> df.has_best_ask, rows |-> df.rows]

\* an entry of the call log
IngestCall == [op |-> "ingest", metrics |-> BacktestMetrics]
RunCall(m) == [op |-> "run", metrics |-> m]

\* the body of ingest(ts_df)
IngestBody(df) ==
    /\ ts' = [is_none |-> FALSE, rows |-> SortByDate(FillBestAsk(df))]
    /\ self_fields' = FreshFields(config)
    /\ ts_df_kept' = (ts_df_kept /\ CallerFrame(df) = df)
    /\ calls' = Append(calls, IngestCall)
    /\ pc' = "ready"
    /\ UNCHANGED <<config, runVars, metrics, mcVars, calVars, batchVars>>

\* the first ingest on a new instance
Ingest(df) ==
    /\ pc = "new"
    /\ IngestBody(df)

-----------------------------------------------------------------------------
(* Backtester._synthetic_order_book and Backtester.simulate_fill.          *)
(* bid = ask - ask * spread_bps / 10000 is kept as bid * 10000, and the    *)
(* proximity tests are cross-multiplied by 10000, so they are exact.       *)

\* ask of the period (NaN when the best_ask value is missing)
BookAsk(row) == row.best_ask

\* 10000 * bid
BookBid10k(cfg, row) ==
    IF IsNaN(BookAsk(row)) THEN NaN
    ELSE BookAsk(row) * (BpsDenom - cfg.spread_bps)

\* volume = fill_volume * volume_scale; `volume <= 0` is false for NaN
VolumeNotPositive(cfg, row) ==
    LE(Mul(row.fill_volume, cfg.volume_scale), 0)

\* simulate_fill("buy", bid, row, date)
SimulateFillBuy(cfg, row) ==
    /\ ~IsNaN(row.fill_price)
    /\ ~VolumeNotPositive(cfg, row)
    /\ GE(BookBid10k(cfg, row),
          row.fill_price * (BpsDenom - cfg.fill_proximity_pct))

SimulateFillSellStrict(cfg, row) ==
    /\ ~IsNaN(row.fill_price)
    /\ ~VolumeNotPositive(cfg, row)
    /\ ~IsNaN(BookAsk(row))
    /\ BookAsk(row) * BpsDenom
          < row.fill_price * (BpsDenom + cfg.fill_proximity_pct)

\* simulate_fill("sell", ask, row, date)
SimulateFillSell(cfg, row) ==
    /\ ~IsNaN(row.fill_price)
    /\ ~VolumeNotPositive(cfg, row)
    /\ ~IsNaN(BookAsk(row))
    /\ BookAsk(row) * BpsDenom
          <= row.fill_price * (BpsDenom + cfg.fill_proximity_pct)

-----------------------------------------------------------------------------
(* The loop body of Backtester.run, on the record s of run's locals *)

\* fee_mult * 10000
FeeMultBps(cfg) == BpsDenom - (cfg.fee_bps + cfg.friction_bps)

\* cost = fill_price * fee_mult, in money units
UnitCost(cfg, row) ==
    (Money(row.fill_price) \div BpsDenom) * FeeMultBps(cfg)

\* int(fill_vol) or 1
IntOrOne(fill_vol) == IF fill_vol = 0 THEN 1 ELSE fill_vol

BuyGuardNoFill(cfg, s, row) ==
    s.position < cfg.position_limit

\* line 141
BuyGuard(cfg, s, row) ==
    s.position < cfg.position_limit /\ SimulateFillBuy(cfg, row)

BuySizeUncapped(cfg, s, row) == IntOrOne(row.fill_volume)

\* line 144
BuySize(cfg, s, row) ==
    Min(IntOrOne(row.fill_volume), cfg.position_limit - s.position)

\* lines 140-149
BuyStep(cfg, s, row) ==
    IF BuyGuard(cfg, s, row)
       /\ GE(s.cash, Mul(UnitCost(cfg, row), row.fill_volume))
    THEN LET size == BuySize(cfg, s, row)
             cost == UnitCost(cfg, row)
         IN  [s EXCEPT !.cash = Sub(s.cash, cost * size),
                       !.cost_basis = s.cost_basis + cost * size,
                       !.position = s.position + size,
                       !.trade_pnls = Append(s.trade_pnls, 0),
                       !.fill_log = Append(s.fill_log, "buy"),
                       !.inventory_days_stale = 0]
    ELSE s

\* line 152
SellGuard(cfg, s, row) ==
    s.position > 0 /\ SimulateFillSell(cfg, row)

\* a sell that leaves the cost basis as it is
SellStepKeepBasis(cfg, s, row) ==
    IF ~SellGuard(cfg, s, row) THEN s
    ELSE IF IsNaN(row.fill_volume) THEN [s EXCEPT !.raised = TRUE]
    ELSE LET proceeds == UnitCost(cfg, row) * row.fill_volume
             size == Min(IntOrOne(row.fill_volume), s.position)
             avg == s.cost_basis \div Max(s.position, 1)
             pnl == Money(row.fill_price) * size - avg * size
         IN  [s EXCEPT !.cash = Add(s.cash, (proceeds * size) \div Max(size, 1)),
                       !.position = s.position - size,
                       !.trade_pnls = Append(s.trade_pnls, pnl),
                       !.fill_log = Append(s.fill_log, "sell"),
                       !.inventory_days_stale = 0]

\* lines 151-160; int(NaN) raises ValueError before anything is assigned
SellStep(cfg, s, row) ==
    IF ~SellGuard(cfg, s, row) THEN s
    ELSE IF IsNaN(row.fill_volume) THEN [s EXCEPT !.raised = TRUE]
    ELSE LET proceeds == UnitCost(cfg, row) * row.fill_volume
             size == Min(IntOrOne(row.fill_volume), s.position)
             avg == s.cost_basis \div Max(s.position, 1)
             pnl == Money(row.fill_price) * size - avg * size
         IN  [s EXCEPT !.cash = Add(s.cash, (proceeds * size) \div Max(size, 1)),
                       !.cost_basis = s.cost_basis - avg * size,
                       !.position = s.position - size,
                       !.trade_pnls = Append(s.trade_pnls, pnl),
                       !.fill_log = Append(s.fill_log, "sell"),
                       !.inventory_days_stale = 0]

\* a penalty at the full 0.1% rate from the first day
StalePenaltyUndecayed(s, row) ==
    IF IsNaN(row.fill_price) THEN NaN
    ELSE (s.position * Money(row.fill_price)) \div PenaltyDenom

\* stale_penalty = position * fill_price * 0.001 * min(days / 30, 1.0)
StalePenalty(s, row) ==
    IF IsNaN(row.fill_price) THEN NaN
    ELSE (s.position * Money(row.fill_price)
            * Min(s.inventory_days_stale, StaleCapDays))
         \div (PenaltyDenom * StaleCapDays)

\* lines 162-167
RiskStep(s, row) ==
    LET s1 == [s EXCEPT !.inventory_days_stale = s.inventory_days_stale + 1]
    IN  IF s1.position > 0
        THEN [s1 EXCEPT
                !.total_inventory_risk_cost =
                    Add(s1.total_inventory_risk_cost, StalePenalty(s1, row)),
                !.cash = Sub(s1.cash, StalePenalty(s1, row))]
        ELSE s1

\* mtm = fill_price if not np.isnan(fill_price) else 0.0
Mtm(row) == IF IsNaN(row.fill_price) THEN 0 ELSE Money(row.fill_price)

\* first_fill_price (lines 115-117), in currency units
FirstFillPrice(rows) ==
    IF IsNaN(rows[1].fill_price) THEN 0 ELSE rows[1].fill_price

\* hold_cash_after_buy (line 118)
HoldCashAfterBuy(cfg, rows) ==
    IF FirstFillPrice(rows) > 0
    THEN Money(cfg.initial_cash - FirstFillPrice(rows))
    ELSE Money(cfg.initial_cash)

HoldPoint(cfg, rows, row) ==
    HoldCashAfterBuy(cfg, rows)
        + (IF FirstFillPrice(rows) > 0 THEN 1 ELSE 0) * Mtm(row)

\* dd > max_dd, with dd = (peak - equity) / peak if peak > 0 else 0
DrawdownExceeds(peak, equity, mdd) ==
    /\ ~IsNaN(equity)
    /\ peak > 0
    /\ RatGT(peak - equity, peak, mdd[1], mdd[2])

\* a mark that records cash alone as the period's equity
MarkStepCashOnly(cfg, rows, s, row) ==
    LET equity == s.cash
        peak == IF GT(equity, s.peak_equity) THEN equity ELSE s.peak_equity
    IN  [s EXCEPT !.equity_curve = Append(s.equity_curve, equity),
                  !.peak_equity = peak,
                  !.max_dd = IF DrawdownExceeds(peak, equity, s.max_dd)
                             THEN <<peak - equity, peak>> ELSE s.max_dd,
                  !.hold_curve = Append(s.hold_curve, HoldPoint(cfg, rows, row))]

\* lines 169-179
MarkStep(cfg, rows, s, row) ==
    LET equity == Add(s.cash, s.position * Mtm(row))
        peak == IF GT(equity, s.peak_equity) THEN equity ELSE s.peak_equity
    IN  [s EXCEPT !.equity_curve = Append(s.equity_curve, equity),
                  !.peak_equity = peak,
                  !.max_dd = IF DrawdownExceeds(peak, equity, s.max_dd)
                             THEN <<peak - equity, peak>> ELSE s.max_dd,
                  !.hold_curve = Append(s.hold_curve, HoldPoint(cfg, rows, row))]

SkipStepNoPoint(cfg, rows, s, row) == s

\* lines 134-138: no reference price, mark to market and continue
SkipStep(cfg, rows, s, row) ==
    [s EXCEPT !.equity_curve =
                  Append(s.equity_curve, Add(s.cash, s.position * Mtm(row))),
              !.hold_curve = Append(s.hold_curve, HoldPoint(cfg, rows, row))]

\* One iteration of the loop (lines 127-179)
PeriodStep(cfg, rows, s, row) ==
    IF IsNaN(BookBid10k(cfg, row)) \/ IsNaN(BookAsk(row))
    THEN SkipStep(cfg, rows, s, row)
    ELSE LET s1 == BuyStep(cfg, s, row)
             s2 == SellStep(cfg, s1, row)
         IN  IF s2.raised THEN s2
             ELSE MarkStep(cfg, rows, RiskStep(s2, row), row)

-----------------------------------------------------------------------------
(* Metrics derivation (lines 181-199) *)

\* One simple return diff / (previous + 1e-12) as a reduced fraction <<d, e>>;
\* <<NaN, 1>> when either equity value is NaN.
Return(prev, next) ==
    IF IsNaN(prev) \/ IsNaN(next) THEN <<NaN, 1>>
    ELSE LET d == next - prev
         IN  IF d = 0 THEN <<0, 1>>
             ELSE IF prev = 0 THEN <<d, 0>>
             ELSE LET g == Gcd(Abs(d), Abs(prev))
                      sg == IF prev < 0 THEN 0 - 1 ELSE 1
                  IN  <<(sg * d) \div g, (sg * prev) \div g>>

\* np.diff(equity_curve) / (np.array(equity_curve[:-1]) + 1e-12)
Returns(curve) ==
    [k \in 1..(Len(curve) - 1) |-> Return(curve[k], curve[k + 1])]

\* np.std(returns) > 0: false when a return is NaN, true iff two returns differ
StdPositive(curve) ==
    LET r == Returns(curve)
    IN  /\ \A k \in 1..Len(r) : ~IsNaN(r[k][1])
        /\ \E a, b \in 1..Len(r) : r[a] # r[b]

\* sharpe = mean / std * sqrt(252) if std > 0 else 0.0.  The value is kept as
\* the branch taken: std_positive FALSE is the literal 0.0, TRUE the finite
\* quotient; nan marks an undefined quotient (never produced by the guard).
Sharpe(curve) ==
    [nan |-> FALSE, std_positive |-> StdPositive(curve)]

\* win_rate = len(wins) / len(trade_pnls) * 100 as a fraction, 0.0 if no trades
WinRate(pnls) ==
    IF pnls = <<>> THEN <<0, 1>>
    ELSE <<100 * Cardinality({k \in 1..Len(pnls) : pnls[k] > 0}), Len(pnls)>>

ComputeMetrics(cfg, s) ==
    [total_pnl |-> Sub(s.equity_curve[Len(s.equity_curve)], Money(cfg.initial_cash)),
     sharpe_ratio |-> Sharpe(s.equity_curve),
     max_drawdown_pct |-> <<100 * s.max_dd[1], s.max_dd[2]>>,
     inventory_risk_cost |-> s.total_inventory_risk_cost,
     num_trades |-> Len(s.trade_pnls),
     win_rate_pct |-> WinRate(s.trade_pnls),
     equity_curve |-> s.equity_curve,
     hold_curve |-> s.hold_curve]

-----------------------------------------------------------------------------
(* Backtester.run as a state machine: start, one step per period, finish *)

Locals ==
    [cash |-> cash, position |-> position, cost_basis |-> cost_basis,
     equity_curve |-> equity_curve, hold_curve |-> hold_curve,
     trade_pnls |-> trade_pnls, fill_log |-> fill_log,
     peak_equity |-> peak_equity, max_dd |-> max_dd,
     inventory_days_stale |-> inventory_days_stale,
     total_inventory_risk_cost |-> total_inventory_risk_cost,
     raised |-> FALSE]

SetLocals(s) ==
    /\ cash' = s.cash
    /\ position' = s.position
    /\ cost_basis' = s.cost_basis
    /\ equity_curve' = s.equity_curve
    /\ hold_curve' = s.hold_curve
    /\ trade_pnls' = s.trade_pnls
    /\ fill_log' = s.fill_log
    /\ peak_equity' = s.peak_equity
    /\ max_dd' = s.max_dd
    /\ inventory_days_stale' = s.inventory_days_stale
    /\ total_inventory_risk_cost' = s.total_inventory_risk_cost

\* lines 110-125
StartLocals(cfg) ==
    [cash |-> Money(cfg.initial_cash), position |-> 0, cost_basis |-> 0,
     equity_curve |-> <<Money(cfg.initial_cash)>>,
     hold_curve |-> <<Money(cfg.initial_cash)>>,
     trade_pnls |-> <<>>, fill_log |-> <<>>,
     peak_equity |-> Money(cfg.initial_cash), max_dd |-> <<0, 1>>,
     inventory_days_stale |-> 0, total_inventory_risk_cost |-> 0,
     raised |-> FALSE]

\* lines 105-125
RunEnter ==
    /\ IF ts.is_none \/ ts.rows = <<>>
       THEN /\ metrics' = BacktestMetrics
            /\ calls' = Append(calls, RunCall(BacktestMetrics))
            /\ pc' = "done"
            /\ UNCHANGED runVars
       ELSE /\ SetLocals(StartLocals(config))
            /\ i' = 1
            /\ pc' = "running"
            /\ UNCHANGED <<metrics, calls>>
    /\ UNCHANGED <<config, ts, self_fields, ts_df_kept, mcVars, calVars, batchVars>>

\* the first call of run() on an instance
RunStart ==
    /\ pc \in {"new", "ready"}
    /\ RunEnter

\* run() called again after an earlier run() has returned
RunAgain ==
    /\ pc = "done"
    /\ Len(calls) < MaxCalls
    /\ RunEnter

\* lines 127-179, one period
RunPeriod ==
    /\ pc = "running"
    /\ i <= Len(ts.rows)
    /\ LET s == PeriodStep(config, ts.rows, Locals, ts.rows[i])
       IN  /\ SetLocals(s)
           /\ pc' = IF s.raised THEN "error" ELSE "running"
           /\ i' = IF s.raised THEN i ELSE i + 1
    /\ UNCHANGED <<config, ts, metrics, self_fields, ts_df_kept, calls, mcVars,
                   calVars, batchVars>>

\* lines 181-199
RunFinish ==
    /\ pc = "running"
    /\ i > Len(ts.rows)
    /\ metrics' = ComputeMetrics(config, Locals)
    /\ calls' = Append(calls, RunCall(ComputeMetrics(config, Locals)))
    /\ pc' = "done"
    /\ UNCHANGED <<config, ts, runVars, self_fields, ts_df_kept, mcVars, calVars,
                   batchVars>>

-----------------------------------------------------------------------------
(* run_portfolio_monte_carlo (simulator.py lines 51-138).                   *)
(*                                                                         *)
(* Representation.  mu, sigma, liquidity_score and volume_threshold are in  *)
(* hundredths, the haircut and ruin_pct in halves.  Log-returns live on an *)
(* integer lattice whose unit is half of 0.35 * sqrt(dt): a standard       *)
(* normal draw is one of -1, 0, 1, drift and volatility of a step are      *)
(* rounded to lattice units, and exp maps a lattice sum L to 2^L.  Prices  *)
(* are scaled by 2^(2T) so that they stay integers.  The generator is a    *)
(* linear congruential generator whose state is local to one call.         *)

NoSeed == -1
RngModulus == 16
S0Default == 100
VolumeScaleDenom == 100
HalfDenom == 2

\* the fallback asset of line 65
DefaultSku == [label |-> "Default", mu |-> 5, sigma |-> 35, liquidity_score |-> 50]

SkuParamsOtherFallback(cfg) ==
    IF cfg.sku_params = <<>>
    THEN <<[DefaultSku EXCEPT !.liquidity_score = 100]>>
    ELSE cfg.sku_params

\* lines 62-65
SkuParams(cfg) ==
    IF cfg.sku_params = <<>> THEN <<DefaultSku>> ELSE cfg.sku_params

DefaultRngUnseeded(seed, entropy) == entropy % RngModulus

\* np.random.default_rng(seed): the seed, or fresh OS entropy when seed is None
DefaultRng(seed, entropy) ==
    IF seed = NoSeed THEN entropy % RngModulus ELSE seed % RngModulus

\* one step of the generator
Lcg(state) == (5 * state + 3) % RngModulus

RECURSIVE Advance(_, _)
Advance(state, n) == IF n = 0 THEN state ELSE Advance(Lcg(state), n - 1)

\* the n-th standard_normal value drawn from a generator started in state g
Draw(g, n) == (Advance(g, n) % 3) - 1

\* Z_market = rng.standard_normal((P, T)): draws 1 .. P*T
ZMarket(g, P, T, p, t) == Draw(g, (p - 1) * T + t)

\* Z_idio = rng.standard_normal((P, T, K)): the next P*T*K draws
ZIdio(g, P, T, K, p, t, k) ==
    Draw(g, P * T + ((p - 1) * T + (t - 1)) * K + k)

\* Z_vol = rng.standard_normal((P, T, K)): the last P*T*K draws
ZVol(g, P, T, K, p, t, k) ==
    Draw(g, P * T + P * T * K + ((p - 1) * T + (t - 1)) * K + k)

\* beta = np.clip(config.market_beta, 0.0, 1.0)
Beta(cfg) == Max(0, Min(cfg.market_beta, 1))

\* Z = beta * Z_market + sqrt(1 - beta^2) * Z_idio, exact for beta in {0, 1}
Shock(cfg, g, P, T, K, p, t, k) ==
    Beta(cfg) * ZMarket(g, P, T, p, t)
        + (1 - Beta(cfg) * Beta(cfg)) * ZIdio(g, P, T, K, p, t, k)

\* n / d rounded to the nearest integer
RoundDiv(n, d) == (2 * n + d) \div (2 * d)

\* the volatility of the reference asset, sigma = 0.35, is two lattice units
SigmaRef == 35
\* 20000 * dt^-1 * (lattice unit), the denominator of the drift in units
DriftDen == 55561

\* log_returns = drift + vol * Z with drift = (mu - sigma^2 / 2) * dt and
\* vol = sigma * sqrt(dt) (lines 93-95), in lattice units; sigma is clamped
\* from below (line 75)
LogReturn(sku, z) ==
    LET sigma == Max(sku.sigma, 0)
        drift == RoundDiv(200 * sku.mu - sigma * sigma, DriftDen)
        vol == RoundDiv(2 * sigma, SigmaRef)
    IN  drift + vol * z

RECURSIVE Pow2(_)
Pow2(n) == IF n = 0 THEN 1 ELSE 2 * Pow2(n - 1)

RECURSIVE SumTo(_, _)
SumTo(f, n) == IF n = 0 THEN 0 ELSE f[n] + SumTo(f, n - 1)

\* S[:, -1, :] for path p and asset k, times 2^(2T)
EndPrice(cfg, g, P, T, K, p, k) ==
    LET sku == SkuParams(cfg)[k]
        steps == [t \in 1..T |-> LogReturn(sku, Shock(cfg, g, P, T, K, p, t, k))]
    IN  S0Default * Pow2(SumTo(steps, T) + 2 * T)

\* exp(0.3 * z) in hundredths, for z in -1, 0, 1
Exp03(z) == IF z < 0 THEN 74 ELSE IF z = 0 THEN 100 ELSE 135

\* below = volume < config.volume_threshold, volume = liq * exp(0.3 * Z_vol)
Below(cfg, g, P, T, K, p, t, k) ==
    SkuParams(cfg)[k].liquidity_score * Exp03(ZVol(g, P, T, K, p, t, k))
        < cfg.volume_threshold * VolumeScaleDenom

\* the number of below-threshold steps anywhere on the path
DaysBelowAnywhere(below_pk, T) ==
    Cardinality({t \in 1..T : below_pk[t]})

\* lines 106-109: the number of days below the threshold at the END of the
\* path; flipped[j] is the flag of step T + 1 - j
DaysStaleAtEnd(below_pk, T) ==
    LET flipped == [j \in 1..T |-> below_pk[T + 1 - j]]
        all_below == \A j \in 1..T : flipped[j]
        first_above_idx ==
            IF all_below THEN 0
            ELSE (CHOOSE j \in 1..T :
                    ~flipped[j] /\ \A m \in 1..(j - 1) : flipped[m]) - 1
    IN  IF all_below THEN T ELSE first_above_idx

IsStaleStrict(cfg, days) == days > cfg.staleness_ruin_days

\* line 110
IsStale(cfg, days) == days >= cfg.staleness_ruin_days

\* line 111, in halves
Haircut(cfg, stale) == IF stale THEN cfg.staleness_haircut ELSE HalfDenom

RuinThresholdComplement(cfg, T) ==
    cfg.initial_capital * (HalfDenom - cfg.ruin_pct) * Pow2(2 * T)

\* ruin_threshold = initial_capital * ruin_pct, in the unit of final_values
RuinThreshold(cfg, T) ==
    cfg.initial_capital * cfg.ruin_pct * Pow2(2 * T)

RuinStalenessCountAnyStale(final_values, had_stale, threshold) ==
    Cardinality({p \in DOMAIN final_values : had_stale[p]})

\* lines 122-124: the paths that are ruined and have a stale asset
RuinStalenessCount(final_values, had_stale, threshold) ==
    Cardinality({p \in DOMAIN final_values :
                    final_values[p] < threshold /\ had_stale[p]})

\* The whole function, for the generator state g that default_rng returned.
\* Values are in units of 1 / (2 * 2^(2T)) of a currency unit.
Simulate(cfg, g) ==
    LET P == cfg.num_paths
        T == cfg.num_days
        skus == SkuParams(cfg)
        K == Len(skus)
        shares == (cfg.initial_capital \div K) \div S0Default
        below == [p \in 1..P |-> [k \in 1..K |->
                    [t \in 1..T |-> Below(cfg, g, P, T, K, p, t, k)]]]
        days == [p \in 1..P |-> [k \in 1..K |->
                    DaysStaleAtEnd(below[p][k], T)]]
        is_stale == [p \in 1..P |-> [k \in 1..K |-> IsStale(cfg, days[p][k])]]
        value_full == [p \in 1..P |-> [k \in 1..K |->
                    shares * EndPrice(cfg, g, P, T, K, p, k)]]
        value_per_sku == [p \in 1..P |-> [k \in 1..K |->
                    value_full[p][k] * Haircut(cfg, is_stale[p][k])]]
        final_values == [p \in 1..P |-> SumTo(value_per_sku[p], K)]
        threshold == RuinThreshold(cfg, T)
        had_stale == [p \in 1..P |-> \E k \in 1..K : is_stale[p][k]]
    IN  [final_values |-> final_values,
         probability_of_ruin |->
            <<Cardinality({p \in 1..P : final_values[p] < threshold}), P>>,
         probability_of_ruin_staleness |->
            <<RuinStalenessCount(final_values, had_stale, threshold), P>>,
         staleness_days_threshold |-> cfg.staleness_ruin_days,
         num_skus |-> K,
         sku_labels |-> [k \in 1..K |-> skus[k].label],
         sku_params |-> skus,
         below |-> below,
         days_stale_at_end |-> days,
         is_stale |-> is_stale,
         value_per_sku_full |-> value_full,
         value_per_sku |-> value_per_sku]

RuinPcts == {1, 2}
Entropy == {1, 2}

\* One call run_portfolio_monte_carlo(config) with the caller's configuration
\* at the given ruin_pct; the configuration object itself is not written.
MonteCarloRun ==
    /\ Len(mc_results) < MaxRuns
    /\ \E r \in RuinPcts, e \in Entropy :
          LET cfg == [mc_config EXCEPT !.ruin_pct = r]
              rng == DefaultRng(cfg.seed, e)
          IN  mc_results' = Append(mc_results,
                  [config |-> cfg, rng |-> rng, result |-> Simulate(cfg, rng)])
    /\ UNCHANGED <<mc_config, legacyVars, btVars, calVars, batchVars>>

(* Inputs of the Monte Carlo engine *)

Sku(label, liq) == [label |-> label, mu |-> 5, sigma |-> 35, liquidity_score |-> liq]

Liquidities == {0, 10}

Portfolios ==
    {<<>>} \cup { <<Sku("A", a)>> : a \in Liquidities }
           \cup { <<Sku("A", a), Sku("B", b)>> : a, b \in Liquidities }

MCConfigs ==
    [initial_capital : {1000}, num_days : 1..MaxDays, num_paths : 1..MaxPaths,
     sku_params : Portfolios, market_beta : {0, 1}, volume_threshold : {10},
     staleness_ruin_days : {1, 3}, staleness_haircut : {0, 1},
     ruin_pct : {1}, seed : {NoSeed, 3, 7}]

-----------------------------------------------------------------------------
(* MarketSimulator, the legacy single-SKU simulator (simulator.py lines     *)
(* 141-259).                                                               *)
(*                                                                         *)
(* Capital and prices are money (1 / MoneyScale of a currency unit), rates *)
(* are basis points, liquidity_shock_prob and ruin_threshold_pct are in    *)
(* hundredths.  A GBM path is a sequence of positive prices starting at    *)
(* S0 = 100; which one the generator produces is a nondeterministic        *)
(* choice.  The position is the fraction <<num, den>>.                     *)

\* SimulatorConfig(); mu, sigma and the shock drop only shape the price
\* path, which is chosen freely among the positive paths
SimulatorConfig ==
    [initial_capital |-> 100000, num_days |-> 252, num_paths |-> 10000,
     liquidity_shock_prob |-> 2, spread_bps_range |-> <<100, 400>>,
     fee_bps_range |-> <<0, 125>>, friction_bps_range |-> <<25, 75>>,
     ruin_threshold_pct |-> 0 - 50, staleness_ruin_days |-> 180]

UnitSize == 10
HalfSpreadDenom == 20000

\* bid = mid * (1 - spread_mult / 2), with mid in money
PathBid(mid, spread_bps) ==
    (mid \div HalfSpreadDenom) * (HalfSpreadDenom - spread_bps)

\* ask = mid * (1 + spread_mult / 2)
PathAsk(mid, spread_bps) ==
    (mid \div HalfSpreadDenom) * (HalfSpreadDenom + spread_bps)

\* x * fee_mult and x / fee_mult, fee_mult = 1 - (fee_bps + friction_bps) / 10000
TimesFeeMult(x, fee_bps, friction_bps) ==
    LET f == BpsDenom - (fee_bps + friction_bps)
        g == Gcd(BpsDenom, f)
    IN  (x \div (BpsDenom \div g)) * (f \div g)

OverFeeMult(x, fee_bps, friction_bps) ==
    LET f == BpsDenom - (fee_bps + friction_bps)
        g == Gcd(BpsDenom, f)
    IN  (x * (BpsDenom \div g)) \div (f \div g)

\* a buy condition that is met at or above the bid
BuyConditionAtOrAbove(mid, bid, capital) ==
    mid >= bid /\ capital >= Money(UnitSize)

\* line 209: mid <= bid and capital >= unit_size
BuyCondition(mid, bid, capital) ==
    mid <= bid /\ capital >= Money(UnitSize)

\* the locals of _run_single_path at its start (lines 185-189); opened
\* counts the buys of the path
PathStart(capital) ==
    [capital |-> capital, position |-> <<0, 1>>, cost_basis |-> 0,
     max_stale_days |-> 0, current_stale |-> 0, opened |-> 0]

\* lines 195-214, one day of the path at price mid
PathDay(st, mid, spread_bps, fee_bps, friction_bps) ==
    LET bid == PathBid(mid, spread_bps)
        ask == PathAsk(mid, spread_bps)
    IN  IF st.position[1] > 0
        THEN LET stale == st.current_stale + 1
                 held == [st EXCEPT !.current_stale = stale,
                                    !.max_stale_days =
                                        Max(st.max_stale_days, stale)]
                 proceeds ==
                     (TimesFeeMult(ask, fee_bps, friction_bps)
                         * st.position[1]) \div st.position[2]
             IN  IF mid >= ask
                 THEN [held EXCEPT !.capital = st.capital + proceeds,
                                   !.position = <<0, 1>>,
                                   !.cost_basis = 0,
                                   !.current_stale = 0]
                 ELSE held
        ELSE IF BuyCondition(mid, bid, st.capital)
        THEN LET cost == OverFeeMult(bid, fee_bps, friction_bps)
                 whole == st.capital >= cost
                 g == Gcd(st.capital, cost)
                 pos == IF whole THEN <<1, 1>>
                        ELSE <<st.capital \div g, cost \div g>>
                 basis == IF whole THEN cost ELSE st.capital
             IN  [st EXCEPT !.position = pos,
                            !.cost_basis = basis,
                            !.capital = st.capital - basis,
                            !.current_stale = 0,
                            !.opened = st.opened + 1]
        ELSE st

RECURSIVE PathDays(_, _, _, _, _, _)
\* the loop of lines 194-214 over price_path[1 .. t]
PathDays(capital, path, t, spread_bps, fee_bps, friction_bps) ==
    IF t = 0 THEN PathStart(capital)
    ELSE PathDay(PathDays(capital, path, t - 1, spread_bps, fee_bps,
                          friction_bps),
                 Money(path[t]), spread_bps, fee_bps, friction_bps)

\* _run_single_path: (final_equity, max_stale_days), and the buys it made;
\* path holds price_path[1 ..]; price_path[0] is never traded on
RunSinglePath(capital, path, spread_bps, fee_bps, friction_bps) ==
    LET st == PathDays(capital, path, Len(path), spread_bps, fee_bps,
                       friction_bps)
    IN  [final_equity |->
            st.capital
              + (st.position[1] * Money(path[Len(path)])) \div st.position[2],
         max_stale_days |-> st.max_stale_days,
         opened |-> st.opened]

\* prices a path takes
PathPrices == {50, 100, 200}

\* values self._rng.uniform(lo, hi) can return: lo and the middle of the range
UniformDraws(range) == {range[1], (range[1] + range[2]) \div 2}

\* MarketSimulator.run before its first path and after an exception
NotRun ==
    [pc |-> "new", final_values |-> <<>>, staleness_counts |-> <<>>,
     opened |-> <<>>, result |-> <<>>]

\* lines 221-232
LegacyStart ==
    /\ sim_run.pc = "new"
    /\ sim_run' = [sim_run EXCEPT !.pc = "loop"]
    /\ UNCHANGED <<sim_config, mc_config, mc_results, btVars, calVars,
                   batchVars>>

\* lines 234-243, one path.  A liquidity shock draws its day with
\* rng.integers(1, T), which raises ValueError when T = 1.
LegacyPath ==
    /\ sim_run.pc = "loop"
    /\ Len(sim_run.final_values) < sim_config.num_paths
    /\ \E liquidity_shock \in
              (IF sim_config.liquidity_shock_prob > 0 THEN BOOLEAN
               ELSE {FALSE}) :
          IF liquidity_shock /\ sim_config.num_days = 1
          THEN sim_run' = [sim_run EXCEPT !.pc = "error"]
          ELSE \E spread_bps \in UniformDraws(sim_config.spread_bps_range),
                  fee_bps \in UniformDraws(sim_config.fee_bps_range),
                  friction_bps \in UniformDraws(sim_config.friction_bps_range),
                  path \in [1..sim_config.num_days -> PathPrices] :
                 LET r == RunSinglePath(Money(sim_config.initial_capital),
                                        path, spread_bps, fee_bps,
                                        friction_bps)
                 IN  sim_run' =
                        [sim_run EXCEPT
                           !.final_values = Append(@, r.final_equity),
                           !.staleness_counts = Append(@, r.max_stale_days),
                           !.opened = Append(@, r.opened)]
    /\ UNCHANGED <<sim_config, mc_config, mc_results, btVars, calVars,
                   batchVars>>

\* lines 245-259; mean, std and the percentiles are functions of final_values
LegacyFinish ==
    /\ sim_run.pc = "loop"
    /\ Len(sim_run.final_values) = sim_config.num_paths
    /\ LET ruin_threshold ==
               (Money(sim_config.initial_capital) \div 100)
                   * (100 + sim_config.ruin_threshold_pct)
           ruined(fv) == fv <= ruin_threshold
           stale(c) == c >= sim_config.staleness_ruin_days
       IN  sim_run' =
              [sim_run EXCEPT
                 !.pc = "done",
                 !.result =
                    <<[final_values |-> sim_run.final_values,
                       ruin_count |->
                           Len(SelectSeq(sim_run.final_values, ruined)),
                       staleness_ruin_count |->
                           Len(SelectSeq(sim_run.staleness_counts, stale)),
                       n |-> sim_config.num_paths,
                       staleness_days_threshold |->
                           sim_config.staleness_ruin_days]>>]
    /\ UNCHANGED <<sim_config, mc_config, mc_results, btVars, calVars,
                   batchVars>>

(* Inputs of the legacy simulator *)

SpreadRanges == {<<0, 0>>, <<0, 400>>, <<200, 400>>}
FrictionRanges == {<<0, 0>>, <<2000, 2000>>}

LegacyConfigs ==
    [initial_capital : {5, 1000},
     num_days : 1..MaxDays,
     num_paths : 1..MaxPaths,
     liquidity_shock_prob : {0, 2},
     spread_bps_range : SpreadRanges,
     fee_bps_range : {<<0, 0>>},
     friction_bps_range : FrictionRanges,
     ruin_threshold_pct : {0 - 50},
     staleness_ruin_days : {1}]

IdleLegacy ==
    /\ sim_config = SimulatorConfig
    /\ sim_run = NotRun

\* no call of run_portfolio_monte_carlo
IdlePortfolio ==
    /\ mc_config = [initial_capital |-> 1000, num_days |-> 1, num_paths |-> 1,
                    sku_params |-> <<>>, market_beta |-> 0,
                    volume_threshold |-> 10, staleness_ruin_days |-> 1,
                    staleness_haircut |-> 0, ruin_pct |-> 1, seed |-> NoSeed]
    /\ mc_results = <<>>

IdleMC == IdlePortfolio /\ IdleLegacy

-----------------------------------------------------------------------------
(* Calibration (data_processor.py lines 14-93).                             *)
(*                                                                         *)
(* Prices are integers or NaN.  Percentiles are kept in hundredths, which  *)
(* is exact for np.percentile's linear interpolation at q = 1, 25, 75 on   *)
(* integer data; the band limits are compared in two-hundredths.  A log    *)
(* return is kept as the pair <<p[i+1], p[i]>> it is the logarithm of.     *)

MinPrice == 5
PercentileFloor == 1
PctDenom == 100
TradingDays == 252

\* the ascending order np.percentile works on
SortAsc(p) ==
    [j \in 1..Len(p) |->
        CHOOSE v \in {p[m] : m \in 1..Len(p)} :
            /\ Cardinality({m \in 1..Len(p) : p[m] < v}) < j
            /\ j <= Cardinality({m \in 1..Len(p) : p[m] <= v})]

\* np.percentile(p, q) times 100, linear interpolation at (n - 1) * q / 100
Percentile(p, q) ==
    LET x == SortAsc(p)
        h == (Len(p) - 1) * q
        lo == h \div PctDenom + 1
        fr == h % PctDenom
    IN  IF fr = 0 THEN PctDenom * x[lo]
        ELSE PctDenom * x[lo] + fr * (x[lo + 1] - x[lo])

\* n^2 * np.std(p)^2 (population variance)
VarN2(p) ==
    LET sq == [m \in 1..Len(p) |-> p[m] * p[m]]
    IN  Len(p) * SumTo(sq, Len(p)) - SumTo(p, Len(p)) * SumTo(p, Len(p))

\* lines 32-38 for one element x of the filtered array p (p.size > 2)
InBand(p, x) ==
    LET q1 == Percentile(p, 25)
        q3 == Percentile(p, 75)
        iqr == q3 - q1
        floor == Percentile(p, PercentileFloor)
        d == PctDenom * x - q1
    IN  IF iqr > 0
        THEN /\ 2 * PctDenom * x
                  >= Max(Max(2 * PctDenom * MinPrice, 2 * floor), 2 * q1 - 3 * iqr)
             /\ 2 * PctDenom * x <= 2 * q3 + 3 * iqr
        ELSE \* iqr = np.std(p) or 1e-6, and q1 = q3
             /\ x >= MinPrice
             /\ PctDenom * x >= floor
             /\ 4 * d * d * Len(p) * Len(p)
                  <= 9 * PctDenom * PctDenom * VarN2(p)

CleanSoldPricesNoSmallReturn(prices) ==
    LET finite(x) == ~IsNaN(x) /\ x >= MinPrice
        p == SelectSeq(prices, finite)
        keep(x) == InBand(p, x)
    IN  IF Len(p) = 0 THEN p ELSE SelectSeq(p, keep)

\* clean_sold_prices with its default arguments
CleanSoldPrices(prices) ==
    LET finite(x) == ~IsNaN(x) /\ x >= MinPrice
        p == SelectSeq(prices, finite)
        keep(x) == InBand(p, x)
    IN  IF Len(p) <= 2 THEN p ELSE SelectSeq(p, keep)

\* prices_to_daily_returns: np.diff(np.log(p))
PricesToDailyReturns(p) ==
    IF Len(p) < 2 THEN <<>>
    ELSE [m \in 1..(Len(p) - 1) |-> <<p[m + 1], p[m]>>]

\* annualize_daily_stats: mu is TradingDays * ln(ratio[1] / ratio[2]) / n (the
\* log returns telescope); sigma is the default 0.25 when the returns have
\* no spread, i.e. when all price ratios are equal
AnnualizeDailyStats(r) ==
    IF Len(r) = 0
    THEN [mu |-> [zero |-> TRUE, ratio |-> <<1, 1>>, n |-> 1],
          sigma |-> [is_default |-> TRUE]]
    ELSE [mu |-> [zero |-> FALSE, ratio |-> <<r[Len(r)][1], r[1][2]>>,
                  n |-> Len(r)],
          sigma |-> [is_default |->
                \A m \in 1..(Len(r) - 1) :
                    r[m][1] * r[m + 1][2] = r[m][2] * r[m + 1][1]]]

\* liquidity_score_from_sales: clip(num_sales / (span_days / 30) / 10, 0, 1)
\* as a fraction
LiquidityScoreFromSales(num_sales, span_days) ==
    IF span_days <= 0 THEN <<0, 1>>
    ELSE <<Min(3 * num_sales, span_days), span_days>>

\* lines 88-91, in days
SpanDays(rows) ==
    LET days == {rows[m].timestamp : m \in 1..Len(rows)}
        hi == CHOOSE d \in days : \A e \in days : e <= d
        lo == CHOOSE d \in days : \A e \in days : d <= e
    IN  Max(IF Len(rows) > 1 THEN hi - lo ELSE 0, 1)

NoneValue == [is_none |-> TRUE]

ParamsOf(df, prices) ==
    LET stats == AnnualizeDailyStats(PricesToDailyReturns(prices))
    IN  [is_none |-> FALSE, mu |-> stats.mu, sigma |-> stats.sigma,
         liquidity_score |->
            LiquidityScoreFromSales(Len(prices), SpanDays(df.rows)),
         n_observations |-> Len(prices)]

ProcessSkuSoldUnguarded(df) ==
    IF df.rows = <<>> \/ ~df.has_price THEN NoneValue
    ELSE ParamsOf(df, CleanSoldPrices([m \in 1..Len(df.rows) |-> df.rows[m].price]))

\* process_sku_sold
ProcessSkuSold(df) ==
    IF df.rows = <<>> \/ ~df.has_price THEN NoneValue
    ELSE LET prices ==
                CleanSoldPrices([m \in 1..Len(df.rows) |-> df.rows[m].price])
         IN  IF Len(prices) < 2 THEN NoneValue
             ELSE IF Len(PricesToDailyReturns(prices)) < 1 THEN NoneValue
             ELSE ParamsOf(df, prices)

\* the price column of the frame (NaN throughout when the column is absent)
SoldPrices ==
    [m \in 1..Len(sold_df.rows) |->
        IF sold_df.has_price THEN sold_df.rows[m].price ELSE NaN]

\* clean_sold_prices applied to the frame's prices, then to its own output
CleanAgain ==
    /\ Len(cleaned) < MaxCleanings
    /\ cleaned' = Append(cleaned,
            CleanSoldPrices(IF cleaned = <<>> THEN SoldPrices
                            ELSE cleaned[Len(cleaned)]))
    /\ UNCHANGED <<sold_df, params, btVars, mcVars, batchVars>>

\* one call process_sku_sold(sold_df)
ProcessSku ==
    /\ params = <<>>
    /\ params' = <<ProcessSkuSold(sold_df)>>
    /\ UNCHANGED <<sold_df, cleaned, btVars, mcVars, batchVars>>

\* the frame with the same (timestamp, price) rows in reverse row order
Reversed(df) ==
    LET n == Len(df.rows)
    IN  [has_price |-> df.has_price,
         rows |-> [m \in 1..n |-> df.rows[n + 1 - m]]]

\* a second call of process_sku_sold, on the same observations reordered
ProcessSkuReordered ==
    /\ Len(params) = 1
    /\ Len(sold_df.rows) >= 2
    /\ params' = Append(params, ProcessSkuSold(Reversed(sold_df)))
    /\ UNCHANGED <<sold_df, cleaned, btVars, mcVars, batchVars>>

(* Inputs of the calibration *)

SoldPriceValues == {NaN, 1, 10, 11, 12, 50}
DayGaps == {0, 1, 20}

SoldFrame(has_price, gap, pr) ==
    [has_price |-> has_price,
     rows |-> [m \in 1..Len(pr) |-> [timestamp |-> m * gap, price |-> pr[m]]]]

IdleCal ==
    /\ sold_df = [has_price |-> TRUE, rows |-> <<>>]
    /\ cleaned = <<>>
    /\ params = <<>>

-----------------------------------------------------------------------------
(* DataProcessor.ingest_dataframes and ingest_files (lines 111-152).        *)
(*                                                                         *)
(* An entry of the batch is one SKU: its Sold frame df, and for            *)
(* ingest_files whether the path exists and whether its content loads      *)
(* (json.load and load_ebay_sold raise on content they cannot read).       *)
(* SKU labels are the positions 1, 2, ... of the entries.                  *)

\* process_sku_sold raises KeyError at sort_values("timestamp") (line 88)
\* when it gets that far on a frame without a timestamp column
ProcessSkuSoldRaises(df) ==
    /\ df.rows # <<>>
    /\ df.has_price
    /\ Len(CleanSoldPrices([m \in 1..Len(df.rows) |-> df.rows[m].price])) >= 2
    /\ ~df.has_timestamp

\* the three fields the batch keeps of a parameter record (lines 128-132)
KeptParams(p) ==
    [mu |-> p.mu, sigma |-> p.sigma, liquidity_score |-> p.liquidity_score]

\* self._sku_params[sku] = value
Store(map, sku, value) ==
    [k \in DOMAIN map \cup {sku} |-> IF k = sku THEN value ELSE map[k]]

\* self._sku_params = {} and the loop is entered (lines 116-117 / 141-142)
BatchStart ==
    /\ batch_pc = "new"
    /\ self_sku_params' = <<>>
    /\ batch_i' = 1
    /\ batch_pc' = "loop"
    /\ UNCHANGED <<batch, btVars, mcVars, calVars>>

\* one iteration of the loop over the SKUs
BatchItem ==
    /\ batch_pc = "loop"
    /\ batch_i <= Len(batch.entries)
    /\ LET e == batch.entries[batch_i]
           skipped ==
               \/ batch.via = "files" /\ ~e.exists
               \/ (batch.via = "dataframes" \/ e.loads) /\ e.df.rows = <<>>
           raises ==
               \/ batch.via = "files" /\ e.exists /\ ~e.loads
               \/ ~skipped /\ ProcessSkuSoldRaises(e.df)
       IN  IF skipped
           THEN /\ batch_i' = batch_i + 1
                /\ UNCHANGED <<batch_pc, self_sku_params>>
           ELSE IF raises
           THEN /\ batch_pc' = "error"
                /\ UNCHANGED <<batch_i, self_sku_params>>
           ELSE /\ batch_i' = batch_i + 1
                /\ self_sku_params' =
                      IF ProcessSkuSold(e.df).is_none THEN self_sku_params
                      ELSE Store(self_sku_params, batch_i,
                                 KeptParams(ProcessSkuSold(e.df)))
                /\ UNCHANGED batch_pc
    /\ UNCHANGED <<batch, btVars, mcVars, calVars>>

\* return self._sku_params
BatchReturn ==
    /\ batch_pc = "loop"
    /\ batch_i > Len(batch.entries)
    /\ batch_pc' = "done"
    /\ UNCHANGED <<batch, batch_i, self_sku_params, btVars, mcVars, calVars>>

(* Inputs of the batch *)

BatchFrame(has_price, has_timestamp, pr) ==
    [has_price |-> has_price, has_timestamp |-> has_timestamp,
     rows |-> [m \in 1..Len(pr) |-> [timestamp |-> m, price |-> pr[m]]]]

\* frames a caller may hand to ingest_dataframes
CallerFrames ==
    {BatchFrame(TRUE, TRUE, <<>>), BatchFrame(FALSE, TRUE, <<10, 11, 12>>),
     BatchFrame(TRUE, TRUE, <<10>>), BatchFrame(TRUE, TRUE, <<1, 1, 1>>),
     BatchFrame(TRUE, TRUE, <<10, 11, 12, 12>>), BatchFrame(TRUE, TRUE, <<10, 50>>),
     BatchFrame(TRUE, FALSE, <<10, 11, 12>>), BatchFrame(TRUE, FALSE, <<10>>)}

\* frames load_ebay_sold returns: both columns, positive prices only
LoadedFrames ==
    {BatchFrame(TRUE, TRUE, <<>>), BatchFrame(TRUE, TRUE, <<10>>),
     BatchFrame(TRUE, TRUE, <<1, 1, 1>>), BatchFrame(TRUE, TRUE, <<10, 11, 12, 12>>)}

DataframeEntries ==
    {[exists |-> TRUE, loads |-> TRUE, df |-> f] : f \in CallerFrames}

FileEntries ==
    {[exists |-> FALSE, loads |-> FALSE, df |-> BatchFrame(TRUE, TRUE, <<>>)],
     [exists |-> TRUE, loads |-> FALSE, df |-> BatchFrame(TRUE, TRUE, <<>>)]}
    \cup {[exists |-> TRUE, loads |-> TRUE, df |-> f] : f \in LoadedFrames}

IdleBatch ==
    /\ batch = [via |-> "dataframes", entries |-> <<>>]
    /\ batch_pc = "new"
    /\ batch_i = 0
    /\ self_sku_params = <<>>

-----------------------------------------------------------------------------
(* Inputs of the backtester *)

PriceValues == {NaN, 100, 200}
AskValues == {NaN, 100, 200}
VolumeValues == {NaN, 0, 1, 2}

\* <<initial_cash, position_limit, volume_scale>>
Configs ==
    { [DefaultConfig EXCEPT !.initial_cash = c[1], !.position_limit = c[2],
                            !.volume_scale = c[3]] :
        c \in {<<150, 1, 1>>, <<150, 2, 1>>, <<400, 1, 1>>, <<400, 2, 1>>,
               <<400, 0, 1>>, <<400, 2, 2>>} }

RowValues(has_ask) ==
    [fill_price : PriceValues, fill_volume : VolumeValues,
     best_ask : IF has_ask THEN AskValues ELSE {NaN}]

\* rows r stamped with ascending or descending dates
Dated(r, descending) ==
    [k \in 1..Len(r) |->
        [date |-> IF descending THEN Len(r) + 1 - k ELSE k,
         fill_price |-> r[k].fill_price, fill_volume |-> r[k].fill_volume,
         best_ask |-> r[k].best_ask]]

Frame(has_ask, r, descending) ==
    [has_best_ask |-> has_ask, rows |-> Dated(r, descending)]

-----------------------------------------------------------------------------
(* Backtester(config): the state after construction *)

InitBacktester(cfgs) ==
    /\ config \in cfgs
    /\ ts = [is_none |-> TRUE, rows |-> <<>>]
    /\ pc = "new"
    /\ i = 0
    /\ cash = 0
    /\ position = 0
    /\ cost_basis = 0
    /\ equity_curve = <<>>
    /\ hold_curve = <<>>
    /\ trade_pnls = <<>>
    /\ fill_log = <<>>
    /\ peak_equity = 0
    /\ max_dd = <<0, 1>>
    /\ inventory_days_stale = 0
    /\ total_inventory_risk_cost = 0
    /\ metrics = BacktestMetrics
    /\ self_fields = FreshFields(config)
    /\ ts_df_kept = TRUE
    /\ calls = <<>>

Init == InitBacktester(Configs) /\ IdleMC /\ IdleCal /\ IdleBatch

\* the caller ingests one frame of at most MaxPeriods rows
IngestFrame ==
    /\ pc = "new"
    /\ \E n \in 0..MaxPeriods, has_ask \in BOOLEAN, descending \in BOOLEAN :
          \E r \in [1..n -> RowValues(has_ask)] :
              Ingest(Frame(has_ask, r, descending))

Next ==
    \/ IngestFrame
    \/ RunStart
    \/ RunPeriod
    \/ RunFinish

Spec == Init /\ [][Next]_vars

-----------------------------------------------------------------------------
(* cli.run_backtest on an empty time series: the flat synthetic market *)

FlatPeriods == 90

\* cli.py lines 42-48
FlatFrame ==
    [has_best_ask |-> TRUE,
     rows |-> [k \in 1..FlatPeriods |->
                 [date |-> k, fill_price |-> 100, fill_volume |-> 1,
                  best_ask |-> 102]]]

\* cli.py lines 50-53: BacktestConfig(initial_cash, spread_bps), the rest default
FlatConfigs ==
    { [DefaultConfig EXCEPT !.initial_cash = c] : c \in {100000, 10000} }

IngestFlat ==
    /\ pc = "new"
    /\ Ingest(FlatFrame)

InitFlat == InitBacktester(FlatConfigs) /\ IdleMC /\ IdleCal /\ IdleBatch

NextFlat ==
    \/ IngestFlat
    \/ RunStart
    \/ RunPeriod
    \/ RunFinish

SpecFlat == InitFlat /\ [][NextFlat]_vars

-----------------------------------------------------------------------------
(* One Backtester instance over several calls of ingest() and run() *)

RerunConfigs ==
    { [DefaultConfig EXCEPT !.initial_cash = 400, !.position_limit = l] :
        l \in {1, 2} }

RerunRowValues(has_ask) ==
    [fill_price : {NaN, 100}, fill_volume : {1},
     best_ask : IF has_ask THEN {100, 200} ELSE {NaN}]

\* ingest() called while no run is in progress
IngestRerunFrame ==
    /\ pc \in {"new", "ready", "done"}
    /\ Len(calls) < MaxCalls
    /\ \E n \in 0..MaxPeriods, has_ask \in BOOLEAN, descending \in BOOLEAN :
          \E r \in [1..n -> RerunRowValues(has_ask)] :
              IngestBody(Frame(has_ask, r, descending))

InitRerun == InitBacktester(RerunConfigs) /\ IdleMC /\ IdleCal /\ IdleBatch

NextRerun ==
    \/ IngestRerunFrame
    \/ RunStart
    \/ RunAgain
    \/ RunPeriod
    \/ RunFinish

SpecRerun == InitRerun /\ [][NextRerun]_vars

-----------------------------------------------------------------------------
(* The Monte Carlo engine called up to MaxRuns times on one configuration *)

InitMC ==
    /\ InitBacktester({DefaultConfig})
    /\ mc_config \in MCConfigs
    /\ mc_results = <<>>
    /\ IdleLegacy
    /\ IdleCal
    /\ IdleBatch

NextMC == MonteCarloRun

SpecMC == InitMC /\ [][NextMC]_vars

-----------------------------------------------------------------------------
(* One run of the legacy MarketSimulator *)

InitLegacy ==
    /\ InitBacktester({DefaultConfig})
    /\ IdlePortfolio
    /\ sim_config \in LegacyConfigs
    /\ sim_run = NotRun
    /\ IdleCal
    /\ IdleBatch

NextLegacy == LegacyStart \/ LegacyPath \/ LegacyFinish

SpecLegacy == InitLegacy /\ [][NextLegacy]_vars

-----------------------------------------------------------------------------
(* Calibration of one SKU's Sold frame *)

InitCal ==
    /\ InitBacktester({DefaultConfig})
    /\ IdleMC
    /\ \E n \in 0..MaxSales, has_price \in BOOLEAN, gap \in DayGaps :
          \E pr \in [1..n -> SoldPriceValues] :
              sold_df = SoldFrame(has_price, gap, pr)
    /\ cleaned = <<>>
    /\ params = <<>>
    /\ IdleBatch

NextCal == CleanAgain \/ ProcessSku \/ ProcessSkuReordered

SpecCal == InitCal /\ [][NextCal]_vars

-----------------------------------------------------------------------------
(* One batch call of the DataProcessor *)

InitBatch ==
    /\ InitBacktester({DefaultConfig})
    /\ IdleMC
    /\ IdleCal
    /\ \E n \in 0..MaxAssets :
          \/ \E es \in [1..n -> DataframeEntries] :
                batch = [via |-> "dataframes", entries |-> es]
          \/ \E es \in [1..n -> FileEntries] :
                batch = [via |-> "files", entries |-> es]
    /\ batch_pc = "new"
    /\ batch_i = 0
    /\ self_sku_params = <<>>

NextBatch == BatchStart \/ BatchItem \/ BatchReturn

SpecBatch == InitBatch /\ [][NextBatch]_vars

-----------------------------------------------------------------------------
(* Claims about Backtester.run *)

\* the rows the loop has gone through so far
Processed == IF pc \in {"running", "done", "error"} /\ i > 0
             THEN SubSeq(ts.rows, 1, Min(i - 1, Len(ts.rows)))
             ELSE <<>>

\* C1: after every period's buy and sell logic, 0 <= position <= position_limit
\* (for every frame and every configuration with position_limit >= 0).
C1_PositionWithinLimit ==
    0 <= position /\ position <= config.position_limit

\* C1 witness: a buy of volume 2 was cut to the headroom of a limit of 1.
C1_Witness ==
    /\ pc = "running"
    /\ i = 2
    /\ config.position_limit = 1
    /\ ts.rows[1].fill_volume = 2
    /\ fill_log = <<"buy">>
    /\ position = 1

\* neither fill condition triggered in any period processed so far
NoFillTriggered ==
    \A k \in 1..Len(Processed) :
        /\ ~SimulateFillBuy(config, Processed[k])
        /\ ~SimulateFillSell(config, Processed[k])

\* C2: if neither the buy nor the sell fill condition triggers in any period,
\* position stays 0, no inventory-risk cost is charged and every value of the
\* equity curve equals initial_cash.
C2_NoTradeConservation ==
    NoFillTriggered =>
        /\ position = 0
        /\ total_inventory_risk_cost = 0
        /\ \A k \in 1..Len(equity_curve) :
              equity_curve[k] = Money(config.initial_cash)
        /\ (pc = "done" /\ i > 0) =>
              /\ metrics.inventory_risk_cost = 0
              /\ metrics.equity_curve = equity_curve

\* C2 witness: a finished run over two priced periods with a live order book
\* and no executed volume, so that no fill condition triggered.
C2_Witness ==
    /\ pc = "done"
    /\ Len(ts.rows) = 2
    /\ NoFillTriggered
    /\ \A k \in 1..2 : /\ ~IsNaN(ts.rows[k].best_ask)
                       /\ ~IsNaN(ts.rows[k].fill_price)
                       /\ ts.rows[k].fill_volume = 0
    /\ Len(metrics.equity_curve) = 3

Alternating(log) ==
    \A k \in 1..Len(log) : log[k] = IF k % 2 = 1 THEN "buy" ELSE "sell"

\* C9: on the flat market (90 periods, trade price 100, best ask 102, volume
\* 1, spread 200 bps, proximity 2%) the fills alternate buy, sell, buy, ...;
\* the Sharpe ratio is a defined number and max drawdown is within [0, 100]%.
C9_FlatMarket ==
    /\ Alternating(fill_log)
    /\ (pc = "done" /\ i > 0) =>
          /\ ~metrics.sharpe_ratio.nan
          /\ 0 <= metrics.max_drawdown_pct[1]
          /\ metrics.max_drawdown_pct[1] <= 100 * metrics.max_drawdown_pct[2]

\* C9 witness: the run over all 90 periods finished with 180 fills.
C9_Witness ==
    /\ pc = "done"
    /\ config.initial_cash = 100000
    /\ Len(fill_log) = 2 * FlatPeriods
    /\ Len(metrics.equity_curve) = FlatPeriods + 1

AllMissing(rows) ==
    \A k \in 1..Len(rows) :
        /\ IsNaN(rows[k].fill_price)
        /\ IsNaN(rows[k].fill_volume)
        /\ IsNaN(rows[k].best_ask)

ScalarsZero(m) ==
    /\ m.total_pnl = 0
    /\ m.sharpe_ratio = [nan |-> FALSE, std_positive |-> FALSE]
    /\ m.max_drawdown_pct[1] = 0
    /\ m.inventory_risk_cost = 0
    /\ m.num_trades = 0
    /\ m.win_rate_pct[1] = 0

\* C10 as stated: an empty frame, or one whose periods miss every price and
\* volume field, yields all-zero scalars and EMPTY equity and hold curves.
C10_Original ==
    (pc = "done" /\ AllMissing(ts.rows)) =>
        /\ ScalarsZero(metrics)
        /\ metrics.equity_curve = <<>>
        /\ metrics.hold_curve = <<>>

\* C10 amended: no error is raised; an empty (or never ingested) frame yields
\* all-zero scalars and empty curves; a frame of N >= 1 periods that miss
\* every field yields all-zero scalars and curves of N + 1 values, each equal
\* to initial_cash.
C10_EmptyOrAllMissing ==
    AllMissing(ts.rows) =>
        /\ pc # "error"
        /\ (pc = "done" /\ ts.rows = <<>>) => metrics = BacktestMetrics
        /\ (pc = "done" /\ ts.rows # <<>>) =>
              /\ ScalarsZero(metrics)
              /\ metrics.equity_curve =
                    [k \in 1..(Len(ts.rows) + 1) |-> Money(config.initial_cash)]
              /\ metrics.hold_curve =
                    [k \in 1..(Len(ts.rows) + 1) |-> Money(config.initial_cash)]

\* C10 witness: a finished run over two periods with every field missing.
C10_Witness ==
    /\ pc = "done"
    /\ Len(ts.rows) = 2
    /\ AllMissing(ts.rows)
    /\ Len(metrics.equity_curve) = 3

-----------------------------------------------------------------------------
(* Claims about run_portfolio_monte_carlo *)

Runs == {mc_results[n] : n \in 1..Len(mc_results)}

Ruined(run) == run.result.probability_of_ruin[1]

RuinedStale(run) == run.result.probability_of_ruin_staleness[1]

\* C3: in every run the reported probability_of_ruin_staleness is at most
\* the reported probability_of_ruin (both are counts over the same number
\* of paths).
C3_StalenessRuinWithinRuin ==
    \A run \in Runs :
        /\ run.result.probability_of_ruin_staleness[2]
              = run.result.probability_of_ruin[2]
        /\ RuinedStale(run) <= Ruined(run)

\* a run in which some ruined paths have a stale asset and others do not
C3_Witness ==
    \E run \in Runs : 0 < RuinedStale(run) /\ RuinedStale(run) < Ruined(run)

\* C4: of two runs whose configurations differ only in ruin_pct and that
\* draw the same random stream, the one with the larger ruin_pct reports a
\* probability of ruin that is not smaller.
C4_RuinMonotone ==
    \A a, b \in Runs :
        (/\ [a.config EXCEPT !.ruin_pct = 0] = [b.config EXCEPT !.ruin_pct = 0]
         /\ a.rng = b.rng
         /\ a.config.ruin_pct <= b.config.ruin_pct)
        => Ruined(a) <= Ruined(b)

\* two seeded runs that differ only in ruin_pct, the larger one strictly
\* more ruined
C4_Witness ==
    \E a, b \in Runs :
        /\ a.config.seed # NoSeed
        /\ [a.config EXCEPT !.ruin_pct = 0] = [b.config EXCEPT !.ruin_pct = 0]
        /\ a.config.ruin_pct < b.config.ruin_pct
        /\ Ruined(a) < Ruined(b)

\* C5: two runs with the same configuration and the same fixed seed produce
\* identical terminal-value arrays.
C5_SeededDeterminism ==
    \A a, b \in Runs :
        (a.config = b.config /\ a.config.seed # NoSeed)
        => a.result.final_values = b.result.final_values

\* two runs of one seeded configuration whose terminal values differ from
\* path to path
C5_Witness ==
    \E m, n \in 1..Len(mc_results) :
        /\ m < n
        /\ mc_results[m].config = mc_results[n].config
        /\ mc_results[m].config.seed # NoSeed
        /\ mc_results[m].config.num_paths >= 2
        /\ mc_results[m].result.final_values[1]
              # mc_results[m].result.final_values[2]

\* an asset k of path p whose simulated volume is below the threshold at
\* every step
AlwaysBelow(run, p, k) ==
    \A t \in 1..run.config.num_days : run.result.below[p][k][t]

\* C6 as stated: with staleness_haircut = 0 such an asset contributes 0 for
\* every num_days and every staleness_ruin_days.
C6_Original ==
    \A run \in Runs :
        run.config.staleness_haircut = 0 =>
            \A p \in 1..run.config.num_paths, k \in 1..run.result.num_skus :
                AlwaysBelow(run, p, k) => run.result.value_per_sku[p][k] = 0

\* C6: with staleness_haircut = 0 and staleness_ruin_days <= num_days, an
\* asset whose simulated volume is below the threshold at every step of a
\* path contributes exactly 0 to that path's terminal value.
C6_FullWriteOff ==
    \A run \in Runs :
        (/\ run.config.staleness_haircut = 0
         /\ run.config.staleness_ruin_days <= run.config.num_days) =>
            \A p \in 1..run.config.num_paths, k \in 1..run.result.num_skus :
                AlwaysBelow(run, p, k) => run.result.value_per_sku[p][k] = 0

\* a written-off asset next to one that keeps its value, with the run
\* length equal to the number of steps
C6_Witness ==
    \E run \in Runs :
        /\ run.config.staleness_haircut = 0
        /\ run.config.staleness_ruin_days = run.config.num_days
        /\ run.result.num_skus = 2
        /\ \E p \in 1..run.config.num_paths :
              /\ AlwaysBelow(run, p, 1)
              /\ run.result.value_per_sku[p][1] = 0
              /\ run.result.value_per_sku[p][2] > 0

-----------------------------------------------------------------------------
(* Claims about the calibration *)

RECURSIVE IsSubSeq(_, _)
IsSubSeq(b, a) ==
    IF b = <<>> THEN TRUE
    ELSE IF a = <<>> THEN FALSE
    ELSE IF Head(a) = Head(b) THEN IsSubSeq(Tail(b), Tail(a))
    ELSE IsSubSeq(b, Tail(a))

AllEqual(a) == \A m, n \in 1..Len(a) : a[m] = a[n]

UniqueMinimum(a) ==
    \E m \in 1..Len(a) : \A n \in 1..Len(a) : n # m => a[m] < a[n]

\* C7 as stated: cleaning the output of a cleaning removes nothing further.
C7_Original ==
    \A n \in 1..(Len(cleaned) - 1) : cleaned[n + 1] = cleaned[n]

\* C7: cleaning the output a of a cleaning never adds or reorders prices;
\* it returns a unchanged when a has at most 2 prices or all prices of a
\* are equal, and it removes at least one price when a has 3 or more
\* prices with a unique smallest one.
C7_CleanAgain ==
    \A n \in 1..(Len(cleaned) - 1) :
        LET a == cleaned[n]
            b == cleaned[n + 1]
        IN  /\ IsSubSeq(b, a)
            /\ (Len(a) <= 2 \/ AllEqual(a)) => b = a
            /\ (Len(a) >= 3 /\ UniqueMinimum(a)) => Len(b) < Len(a)

\* a first cleaning that keeps 3 or more prices and a second one that
\* removes one of them
C7_Witness ==
    /\ Len(cleaned) >= 2
    /\ Len(cleaned[1]) >= 3
    /\ Len(cleaned[2]) < Len(cleaned[1])

\* C8: process_sku_sold returns None whenever fewer than 2 prices remain
\* after cleaning, in particular for every frame with exactly 1 observation.
C8_NoneBelowTwoPrices ==
    params # <<>> =>
        /\ Len(CleanSoldPrices(SoldPrices)) < 2 => params[1].is_none
        /\ Len(sold_df.rows) = 1 => params[1].is_none

\* a frame of several observations of which exactly one survives the
\* cleaning, processed to None
C8_Witness ==
    /\ params # <<>>
    /\ sold_df.has_price
    /\ Len(sold_df.rows) >= 2
    /\ Len(CleanSoldPrices(SoldPrices)) = 1
    /\ params[1].is_none

-----------------------------------------------------------------------------
(* Claims about the robustness of Backtester.run *)

\* C11: Backtester.run never raises and never produces an undefined value:
\* whatever fields are missing in whatever period, the run does not end in an
\* exception, and cash and every equity-curve value are defined numbers.
C11_Original ==
    /\ pc # "error"
    /\ ~IsNaN(cash)
    /\ \A k \in 1..Len(equity_curve) : ~IsNaN(equity_curve[k])

-----------------------------------------------------------------------------
(* Claims about the DataProcessor batch *)

\* the SKUs of the batch whose calibration succeeds
Calibrates(e) ==
    /\ batch.via = "files" => e.exists /\ e.loads
    /\ e.df.has_price /\ e.df.has_timestamp
    /\ ~ProcessSkuSold(e.df).is_none

\* C12: an asset whose calibration fails never aborts the batch; the call
\* returns a mapping that holds exactly the assets that calibrate.
C12_Original ==
    /\ batch_pc # "error"
    /\ batch_pc = "done" =>
          DOMAIN self_sku_params
              = {k \in 1..Len(batch.entries) : Calibrates(batch.entries[k])}

-----------------------------------------------------------------------------
(* Further claims about run_portfolio_monte_carlo *)

\* C13: with an empty sku_params the engine runs with exactly one synthetic
\* asset (mu 0.05, sigma 0.35, liquidity 0.5), reports num_skus = 1 and the
\* single label "Default", returns one terminal value per path, and leaves
\* the caller's configuration, its empty sku_params included, as it was.
C13_DefaultAssetFallback ==
    \A run \in Runs :
        run.config.sku_params = <<>> =>
            /\ run.result.sku_params
                  = <<[label |-> "Default", mu |-> 5, sigma |-> 35,
                       liquidity_score |-> 50]>>
            /\ run.result.num_skus = 1
            /\ run.result.sku_labels = <<"Default">>
            /\ DOMAIN run.result.final_values = 1..run.config.num_paths
            /\ mc_config.sku_params = <<>>
            /\ run.config = [mc_config EXCEPT !.ruin_pct = run.config.ruin_pct]

\* a run of several paths on the fallback asset
C13_Witness ==
    \E run \in Runs :
        /\ run.config.sku_params = <<>>
        /\ run.config.num_paths >= 2
        /\ run.result.num_skus = 1
        /\ \A p \in 1..run.config.num_paths : run.result.final_values[p] > 0

\* the length of the run of below-threshold steps that ends at the final
\* step T (0 when step T is not below the threshold)
RECURSIVE TrailingRun(_, _)
TrailingRun(below_pk, t) ==
    IF t = 0 \/ ~below_pk[t] THEN 0 ELSE 1 + TrailingRun(below_pk, t - 1)

-----------------------------------------------------------------------------
(* Claims about the frame of Backtester.ingest and Backtester.run *)

\* no ingest() lies between the calls m and n of the call log
SameIngest(m, n) == \A k \in m..n : calls[k].op # "ingest"

\* a step of run(): it is entered, advances by a period, or returns
RunStep == pc \in {"new", "ready", "done", "running"} /\ calls' # Append(calls, IngestCall)

\* C14: run() changes neither the ingested sequence nor the configuration
\* nor the instance fields, so all run() calls after one ingest() return
\* identical metrics; ingest() leaves the caller's frame as it was passed
\* and resets the instance fields.
C14_NoSideEffects ==
    /\ [](/\ ts_df_kept
          /\ self_fields = FreshFields(config)
          /\ \A m, n \in 1..Len(calls) :
                (m < n /\ SameIngest(m, n)) => calls[m].metrics = calls[n].metrics)
    /\ [][/\ config' = config
          /\ RunStep => (ts' = ts /\ self_fields' = self_fields)]_vars

\* two run() calls after the ingest of a frame without a best_ask column,
\* each of them trading
C14_Witness ==
    /\ Len(calls) >= 3
    /\ calls[Len(calls) - 2].op = "ingest"
    /\ calls[Len(calls) - 1].op = "run"
    /\ calls[Len(calls)].op = "run"
    /\ calls[Len(calls)].metrics.num_trades > 0
    /\ \E k \in 1..Len(ts.rows) : ts.rows[k].best_ask = ts.rows[k].fill_price

-----------------------------------------------------------------------------
(* Claims about the buy and sell steps of Backtester.run *)

\* the period the loop is about to process, and run's locals after its buy
\* step (lines 140-149)
CurrentRow == ts.rows[i]
AfterBuy == BuyStep(config, Locals, CurrentRow)

\* the period being processed is not skipped and its sell step fills
SellFilled ==
    /\ pc = "running" /\ i <= Len(ts.rows)
    /\ pc' = "running"
    /\ Len(fill_log') = Len(AfterBuy.fill_log) + 1

\* C15: when a sell fills with fill size s (the units removed from the
\* position), cash increases by exactly s x trade_price x (1 - fee fraction
\* - friction fraction), whatever the period's executed volume is; the
\* period's inventory penalty is the only other change of cash.
C15_Original ==
    [][(SellFilled /\ ~IsNaN(cash)) =>
          cash' + (total_inventory_risk_cost' - total_inventory_risk_cost)
              = AfterBuy.cash
                  + (AfterBuy.position - position') * UnitCost(config, CurrentRow)]_vars

\* the period being processed is not skipped, the position is below the
\* limit and the buy fill condition holds (line 141)
BuyDue ==
    /\ pc = "running" /\ i <= Len(ts.rows)
    /\ ~IsNaN(BookAsk(CurrentRow))
    /\ BuyGuard(config, Locals, CurrentRow)
    /\ ~IsNaN(CurrentRow.fill_volume)
    /\ ~IsNaN(cash)

\* the step appended a buy fill
BuyExecuted ==
    /\ Len(fill_log') > Len(fill_log)
    /\ fill_log'[Len(fill_log) + 1] = "buy"

\* C16: a buy whose fill condition holds is executed if and only if cash
\* covers per-unit cost x fill size (the units actually bought), and an
\* executed buy leaves cash non-negative.
C16_Original ==
    [][BuyDue =>
          /\ BuyExecuted
                <=> cash >= UnitCost(config, CurrentRow)
                              * BuySize(config, Locals, CurrentRow)
          /\ BuyExecuted => AfterBuy.cash >= 0]_vars

-----------------------------------------------------------------------------
(* Claims about periods with missing prices *)

\* the period being processed has a trade price but no best-ask value
AskMissingPricePresent ==
    /\ pc = "running" /\ i <= Len(ts.rows)
    /\ IsNaN(CurrentRow.best_ask)
    /\ ~IsNaN(CurrentRow.fill_price)

\* run's locals after the period when its reference price is its trade price
WithTradePriceAsAsk ==
    PeriodStep(config, ts.rows, Locals,
               [CurrentRow EXCEPT !.best_ask = CurrentRow.fill_price])

\* C17: in a period whose best-ask is missing but whose trade price is
\* present, the reference price is the trade price (ask = trade price, bid =
\* trade price - spread) and the buy / sell logic runs on it.
C17_Original ==
    [][AskMissingPricePresent =>
          /\ fill_log' = WithTradePriceAsAsk.fill_log
          /\ position' = WithTradePriceAsAsk.position
          /\ cash' = WithTradePriceAsAsk.cash
          /\ equity_curve' = WithTradePriceAsAsk.equity_curve]_vars

\* the period being processed has neither a best-ask value nor a trade price
BothMissing ==
    /\ pc = "running" /\ i <= Len(ts.rows)
    /\ IsNaN(CurrentRow.best_ask)
    /\ IsNaN(CurrentRow.fill_price)

RECURSIVE LastTradePrice(_, _)
\* the most recent trade price in rows[1..k], zero when there is none
LastTradePrice(rows, k) ==
    IF k = 0 THEN 0
    ELSE IF ~IsNaN(rows[k].fill_price) THEN rows[k].fill_price
    ELSE LastTradePrice(rows, k - 1)

\* C18: in a period that lacks both best-ask and trade price, cash, position
\* and cost basis are unchanged and the equity point of the period is cash +
\* position x the most recent trade price of an earlier period (zero only if
\* no trade price has been observed yet).
C18_Original ==
    [][BothMissing =>
          /\ cash' = cash
          /\ position' = position
          /\ cost_basis' = cost_basis
          /\ equity_curve' =
                Append(equity_curve,
                       Add(cash, position
                                   * Money(LastTradePrice(ts.rows, i - 1))))]_vars

-----------------------------------------------------------------------------
(* Claims about the trade list *)

\* number of sell fills executed so far
SellFills == Len(SelectSeq(fill_log, LAMBDA side : side = "sell"))

\* C20: the list of trade P&L values holds exactly one entry per sell fill
\* and nothing else (a buy fill adds none, an open position at the end adds
\* none), hence num_trades of a finished run is the number of sell fills.
C20_Original ==
    /\ Len(trade_pnls) = SellFills
    /\ (pc = "done" /\ ts.rows # <<>>) => metrics.num_trades = SellFills

-----------------------------------------------------------------------------
(* Claims about the staleness counter and the inventory penalty *)

\* run processes a period that has a reference price and completes it
TradedPeriod ==
    /\ pc = "running" /\ i <= Len(ts.rows)
    /\ ~IsNaN(BookAsk(CurrentRow))
    /\ pc' = "running"

\* a sell fill executed in the period
SoldInPeriod ==
    /\ Len(fill_log') > Len(fill_log)
    /\ fill_log'[Len(fill_log')] = "sell"

\* C21: the staleness counter is set to zero by a sell fill only and grows by
\* one in every period that ends with a position, a buy that adds to an open
\* position does not reset it: the counter used for a period's penalty is
\* the number of consecutive holding periods since the last sell.
C21_Original ==
    [][(TradedPeriod /\ position' > 0) =>
          inventory_days_stale' =
              IF SoldInPeriod \/ position = 0 THEN 1
              ELSE inventory_days_stale + 1]_vars

\* run's locals after the buy and the sell logic of the period
AfterTradeLogic == SellStep(config, AfterBuy, CurrentRow)

\* what the period takes from cash after its trade logic
Charged == Sub(AfterTradeLogic.cash, cash')

\* a completed period with a reference price, a trade price and defined cash
PricedPeriod ==
    /\ TradedPeriod
    /\ ~IsNaN(CurrentRow.fill_price)
    /\ ~IsNaN(cash)

-----------------------------------------------------------------------------
(* Claims about fill sizes *)

\* v = the period's executed volume x volume_scale, floored at one unit
ScaledUnits == Max(1, CurrentRow.fill_volume * config.volume_scale)

\* C23: a buy fill has size min(max(1, int(v)), position_limit - position)
\* and a sell fill has size min(max(1, int(v)), position), where v is the
\* period's executed volume x volume_scale.
C23_Original ==
    [][TradedPeriod =>
          /\ BuyExecuted =>
                AfterBuy.position - position
                    = Min(ScaledUnits, config.position_limit - position)
          /\ SoldInPeriod =>
                AfterBuy.position - position'
                    = Min(ScaledUnits, AfterBuy.position)]_vars

-----------------------------------------------------------------------------
(* Claims about the returned curves *)

RECURSIVE RunningPeak(_, _)
\* the largest of curve[1..k]
RunningPeak(curve, k) ==
    IF k = 1 THEN curve[1]
    ELSE Max(curve[k], RunningPeak(curve, k - 1))

\* 100 x the relative decline of point k from the running peak, <<num, den>>
DeclinePct(curve, k) ==
    <<100 * (RunningPeak(curve, k) - curve[k]), RunningPeak(curve, k)>>

\* a run has returned a curve in which every value is defined
ReturnedDefinedCurve ==
    /\ pc = "done"
    /\ metrics.equity_curve # <<>>
    /\ \A k \in 1..Len(metrics.equity_curve) : ~IsNaN(metrics.equity_curve[k])

\* C24: the reported max drawdown is the largest relative decline from the
\* running peak over all points of the returned equity curve, the points of
\* periods skipped for a missing reference price included.
C24_Original ==
    ReturnedDefinedCurve =>
        LET curve == metrics.equity_curve
            m == metrics.max_drawdown_pct
        IN  /\ \A k \in 1..Len(curve) :
                  ~RatGT(DeclinePct(curve, k)[1], DeclinePct(curve, k)[2],
                         m[1], m[2])
            /\ \E k \in 1..Len(curve) :
                  ~RatGT(m[1], m[2],
                         DeclinePct(curve, k)[1], DeclinePct(curve, k)[2])

-----------------------------------------------------------------------------
(* Claims about the order of the Sold observations *)

\* equal annualized mean (TradingDays * ln(ratio) / n) and volatility
SameMuSigma(x, y) ==
    /\ x.is_none = y.is_none
    /\ ~x.is_none =>
          /\ x.mu.zero = y.mu.zero
          /\ x.mu.n = y.mu.n
          /\ x.mu.ratio[1] * y.mu.ratio[2] = x.mu.ratio[2] * y.mu.ratio[1]
          /\ x.sigma = y.sigma

\* no two observations of the frame share a timestamp
DistinctTimestamps ==
    \A m, n \in 1..Len(sold_df.rows) :
        sold_df.rows[m].timestamp = sold_df.rows[n].timestamp => m = n

\* C25: process_sku_sold takes log returns between prices consecutive in
\* time, so the calibrated mean and volatility are the same for every row
\* order of the same (timestamp, price) observations.
C25_Original ==
    (Len(params) = 2 /\ DistinctTimestamps)
        => SameMuSigma(params[1], params[2])

\* a run over a non-empty sequence has returned
ReturnedFromPeriods == pc = "done" /\ ts.rows # <<>>

CompletedPeriod ==
    /\ pc = "running" /\ i <= Len(ts.rows)
    /\ pc' = "running"

\* the period's trade price, zero when it is missing
TradePriceOrZero ==
    IF IsNaN(CurrentRow.fill_price) THEN 0 ELSE Money(CurrentRow.fill_price)

-----------------------------------------------------------------------------
(* Claims about the cost basis *)

\* units bought in the period
UnitsBought == IF BuyExecuted THEN AfterBuy.position - position ELSE 0

\* the cost basis once the period's buy, if any, is added at its unit cost
BasisAfterBuy == cost_basis + UnitCost(config, CurrentRow) * UnitsBought

\* C27: the cost basis is the cost of the units still held at average cost:
\* it is 0 whenever the position is 0 and positive while units are held, a
\* buy adds unit cost x size, and a sell of size s out of position p
\* multiplies it by (p - s) / p.
C27_CostBasis ==
    /\ [](pc \in {"running", "done"} =>
            /\ position = 0 => cost_basis = 0
            /\ position > 0 => cost_basis > 0)
    /\ [][CompletedPeriod =>
            /\ ~SoldInPeriod => cost_basis' = BasisAfterBuy
            /\ SoldInPeriod =>
                  cost_basis' * (position + UnitsBought)
                      = BasisAfterBuy * position']_vars

\* one of two units bought together has been sold: half the basis is left
C27_Witness ==
    /\ pc \in {"running", "done"}
    /\ fill_log = <<"buy", "sell">>
    /\ position = 1
    /\ Len(ts.rows) = 2
    /\ ts.rows[1].fill_volume = 2
    /\ cost_basis = UnitCost(config, ts.rows[1])

-----------------------------------------------------------------------------
(* Claims about the legacy MarketSimulator *)

\* every spread the configuration can draw is above zero
SpreadStrictlyPositive == sim_config.spread_bps_range[1] > 0

\* C28: when the spread range is strictly positive (and prices are
\* positive, as every path's are), mid <= bid is never met: no path opens a
\* position, every path's staleness count is 0 and every path's final value
\* is the initial capital exactly.
C28_NoPositionOpened ==
    SpreadStrictlyPositive =>
        \A k \in 1..Len(sim_run.final_values) :
            /\ sim_run.opened[k] = 0
            /\ sim_run.staleness_counts[k] = 0
            /\ sim_run.final_values[k] = Money(sim_config.initial_capital)

\* a finished run of two two-day paths with capital above the unit size
C28_Witness ==
    /\ sim_run.pc = "done"
    /\ SpreadStrictlyPositive
    /\ sim_config.initial_capital = 1000
    /\ sim_config.num_days = 2
    /\ Len(sim_run.result[1].final_values) = 2

=============================================================================
